---- MODULE Spec2Model ----
(***************************************************************************)
(* A model of models/basic/model.py (class Model): feature extraction,     *)
(* initial HMM construction, training, ranking and evaluation.             *)
(*                                                                         *)
(* Conventions                                                             *)
(*  - Python lists are TLA+ sequences; a Python index i is i + 1 here.     *)
(*  - Floats are modelled exactly: self.SAMPLING is a rational             *)
(*    [num, den]; the probabilities 0.0, 0.5 and 1.0 are counted in        *)
(*    halves (0, 1, 2), whose float sums are exact; means and variances    *)
(*    are rationals [num, den].                                            *)
(*  - A file name is a sequence of one-character strings, so that the      *)
(*    slices [:5] and [:-5] and int() act on characters as in the code.    *)
(*  - A Python exception is a result record with ok = FALSE.               *)
(***************************************************************************)
EXTENDS Integers, Sequences, FiniteSets, TLC

VARIABLES
    \* ---- self.SAMPLING and the argument / result of get_feature_vectors
    SAMPLING, tomoe_writing, gfv_done, gfv_arr,
    \* ---- argument / results of the initial-matrix builders
    n_states, A_done, A_ret, pi_done, pi_ret,
    \* ---- arguments / result of a direct eval_sequence call
    rk_hmms, rk_nseq, rk_done, rk_res,
    \* ---- the corpus handed to the constructor, the file system, and the
    \*      outcome of the last command run
    train_xml_files_dict, eval_xml_files_dict, fs, last_cmd, last_ok,
    \* ---- the command that is running and the files its loop has left
    pc, todo,
    \* ---- history: what the last train / init run read and wrote, and the
    \*      ranking of the last find_writing
    train_trace, init_wrote, fw_res,
    \* ---- the locals of a running evaluation(), its report, and history
    \*      variables recording what each iteration ranked
    hmms, n_total, n_match1, n_match5, n_match10, report,
    file_total, file_match1, file_match5, file_match10,
    seq_total, seq_match1, seq_match5, seq_match10

featVars == <<SAMPLING, tomoe_writing, gfv_done, gfv_arr>>
matVars  == <<n_states, A_done, A_ret, pi_done, pi_ret>>
rankVars == <<rk_hmms, rk_nseq, rk_done, rk_res>>
pipeVars == <<train_xml_files_dict, eval_xml_files_dict, fs, last_cmd,
              last_ok, pc, todo, train_trace, init_wrote, fw_res>>
evalVars == <<hmms, n_total, n_match1, n_match5, n_match10, report,
              file_total, file_match1, file_match5, file_match10,
              seq_total, seq_match1, seq_match5, seq_match10>>
vars == <<featVars, matVars, rankVars, pipeVars, evalVars>>

(***************************************************************************)
(* Bounds of the model.                                                    *)
(***************************************************************************)
MaxStrokes == 3
MaxPts == 4
MaxDen == 3
MaxNStates == 30
MaxModels == 11

(***************************************************************************)
(* Arithmetic helpers.                                                     *)
(***************************************************************************)
Abs(x) == IF x < 0 THEN -x ELSE x
Max(a, b) == IF a >= b THEN a ELSE b
Min(a, b) == IF a <= b THEN a ELSE b
CeilDiv(a, b) == (a + b - 1) \div b
SeqsUpTo(S, n) == UNION {[1..k -> S] : k \in 0..n}

RECURSIVE SumSeq(_)
SumSeq(s) == IF s = <<>> THEN 0 ELSE Head(s) + SumSeq(Tail(s))

RECURSIVE Flatten(_)
Flatten(ss) == IF ss = <<>> THEN <<>> ELSE Head(ss) \o Flatten(Tail(ss))

(***************************************************************************)
(* Feature extraction.                                                     *)
(***************************************************************************)
\* int(1 / self.SAMPLING): Python's int() truncates; 1/(num/den) = den/num.
SamplingStep(r) == r.den \div r.num

\* round(1 / r), Python 2: halves round away from zero.
RoundInverse(r) == (2 * r.den + r.num) \div (2 * r.num)

\* The body of the two nested loops, over the point stream of all strokes:
\* i counts every point, across strokes; last is (last_x, last_y).
RECURSIVE gfv_loop(_, _, _, _, _)
gfv_loop(points, i, sampling, last, arr) ==
    IF i >= Len(points) THEN arr
    ELSE LET p == points[i + 1]
             kept == (i % sampling = 0)
         IN gfv_loop(points, i + 1, sampling,
                     IF kept THEN p ELSE last,
                     IF kept /\ i # 0
                     THEN Append(arr, <<Abs(p[1] - last[1]),
                                        Abs(p[2] - last[2])>>)
                     ELSE arr)

\* A plausible slip: the point counter restarts with every stroke.
RECURSIVE gfv_per_stroke(_, _, _, _)
gfv_per_stroke(strokes, sampling, last, arr) ==
    IF strokes = <<>> THEN arr
    ELSE LET st == Head(strokes)
             out == gfv_loop(st, 0, sampling, last, <<>>)
             kept == {j \in 1..Len(st) : (j - 1) % sampling = 0}
             nl == IF kept = {} THEN last
                   ELSE st[CHOOSE j \in kept : \A k \in kept : k <= j]
         IN gfv_per_stroke(Tail(strokes), sampling, nl, arr \o out)

get_feature_vectors_reset(writing) ==
    gfv_per_stroke(writing, SamplingStep(SAMPLING), <<0, 0>>, <<>>)

get_feature_vectors(writing) ==
    gfv_loop(Flatten(writing), 0, SamplingStep(SAMPLING), <<0, 0>>, <<>>)

(***************************************************************************)
(* Initial model: pi and A.  Probabilities are counted in halves.          *)
(***************************************************************************)
P_ZERO == 0
P_HALF == 1
P_ONE == 2

\* Raises IndexError for n = 0 (pi[0] = 1.0 on an empty list).
get_initial_state_probability(n) ==
    [i \in 0..(n - 1) |-> IF i = 0 THEN P_ONE ELSE P_ZERO]

\* A plausible slip: the last state is not special-cased, so its row only
\* gets the 0.5 of staying.
get_state_transition_matrix_nolast(n) ==
    [i \in 0..(n - 1) |->
        [j \in 0..(n - 1) |->
            IF j = i \/ j = i + 1 THEN P_HALF ELSE P_ZERO]]

get_state_transition_matrix(n) ==
    [i \in 0..(n - 1) |->
        [j \in 0..(n - 1) |->
            IF i = n - 1
            THEN (IF j = n - 1 THEN P_ONE ELSE P_ZERO)
            ELSE (IF j = i \/ j = i + 1 THEN P_HALF ELSE P_ZERO)]]

(***************************************************************************)
(* Strings, file names and the file system.                                *)
(***************************************************************************)
DigitChars == <<"0", "1", "2", "3", "4", "5", "6", "7", "8", "9">>
IsDigit(ch) == \E d \in 1..Len(DigitChars) : DigitChars[d] = ch
DigitVal(ch) == (CHOOSE d \in 1..Len(DigitChars) : DigitChars[d] = ch) - 1

\* str(n) and "%d" % n for n >= 0
RECURSIVE str(_)
str(n) == IF n < 10 THEN <<DigitChars[n + 1]>>
          ELSE Append(str(n \div 10), DigitChars[(n % 10) + 1])

RECURSIVE DecimalValue(_)
DecimalValue(s) == IF s = <<>> THEN 0
                   ELSE 10 * DecimalValue(SubSeq(s, 1, Len(s) - 1))
                        + DigitVal(s[Len(s)])

\* int(s): ValueError unless s is a non-empty run of digits
int(s) == IF s # <<>> /\ \A k \in 1..Len(s) : IsDigit(s[k])
          THEN [ok |-> TRUE, val |-> DecimalValue(s)]
          ELSE [ok |-> FALSE, val |-> 0]

\* Python slices s[:n] and s[:-n]
SlicePrefix(s, n) == SubSeq(s, 1, Min(n, Len(s)))
SliceDropLast(s, n) == SubSeq(s, 1, Max(0, Len(s) - n))
EndsWith(s, suf) ==
    /\ Len(s) >= Len(suf)
    /\ SubSeq(s, Len(s) - Len(suf) + 1, Len(s)) = suf

EXT_SSET == <<".", "s", "s", "e", "t">>
EXT_XML == <<".", "x", "m", "l">>

\* update_folder_paths; a path is <<directory, basename>>
ROOT == <<"models", "basic">>
FEATURES_ROOT == ROOT \o <<"features">>
TRAIN_FEATURES_ROOT == FEATURES_ROOT \o <<"train">>
EVAL_FEATURES_ROOT == FEATURES_ROOT \o <<"eval">>
INIT_HMM_ROOT == ROOT \o <<"hmms", "init">>
\* A plausible slip: the trained models go to the folder of the initial ones.
TRAIN_HMM_ROOT_is_init == ROOT \o <<"hmms", "init">>
TRAIN_HMM_ROOT == ROOT \o <<"hmms", "train">>

\* the length of the slices [:5] (model files, eval files) and [:-5] (.sset)
CODE_PREFIX_LEN == 5
SSET_SUFFIX_LEN == 5

Exists(f, path) == path \in DOMAIN f
WriteFile(f, path, content) == (path :> content) @@ f
Glob(f, dir, ext) == {p \in DOMAIN f : p[1] = dir /\ EndsWith(p[2], ext)}
FilesIn(f, dir) == {p \in DOMAIN f : p[1] = dir}

\* glob.glob returns the directory's listing order, which is arbitrary; the
\* model draws it from three listings: sorted by name value, that listing
\* rotated by one, and its reverse.
NameKey(p) == DecimalValue(SelectSeq(p[2], IsDigit))
RECURSIVE Ascending(_)
Ascending(S) ==
    IF S = {} THEN <<>>
    ELSE LET m == CHOOSE x \in S : \A y \in S : NameKey(x) <= NameKey(y)
         IN <<m>> \o Ascending(S \ {m})
Reverse(s) == [k \in 1..Len(s) |-> s[Len(s) + 1 - k]]
Rotate(s, r) == [k \in 1..Len(s) |-> s[((k - 1 + r) % Len(s)) + 1]]
GlobOrders(S) ==
    IF S = {} THEN {<<>>}
    ELSE LET a == Ascending(S)
         IN {a, Rotate(a, 1), Reverse(a)}

(***************************************************************************)
(* lib.base helpers.                                                       *)
(***************************************************************************)
\* base.array_flatten: [[dx, dy], ...] -> [dx1, dy1, dx2, dy2, ...]
array_flatten(l) == Flatten(l)

\* base.array_reshape(arr, n): consecutive groups of n elements
array_reshape(arr, n) ==
    [k \in 1..(Len(arr) \div n) |-> SubSeq(arr, (k - 1) * n + 1, k * n)]

\* base.array_split(seq, p): p contiguous chunks whose sizes differ by at
\* most one, the longer chunks first, nothing dropped
array_split(seq, p) ==
    LET n == Len(seq) \div p
        r == Len(seq) % p
        start(k) == (k - 1) * n + Min(k - 1, r)
        size(k) == n + (IF k <= r THEN 1 ELSE 0)
    IN [k \in 1..p |-> SubSeq(seq, start(k) + 1, start(k) + size(k))]

\* base.array_mean: fails on an empty array
array_mean(arr) ==
    IF arr = <<>> THEN [ok |-> FALSE, num |-> 0, den |-> 1]
    ELSE [ok |-> TRUE, num |-> SumSeq(arr), den |-> Len(arr)]

\* base.array_variance (population variance): fails on an empty array
array_variance(arr) ==
    IF arr = <<>> THEN [ok |-> FALSE, num |-> 0, den |-> 1]
    ELSE [ok |-> TRUE,
          num |-> Len(arr) * SumSeq([k \in 1..Len(arr) |-> arr[k] * arr[k]])
                  - SumSeq(arr) * SumSeq(arr),
          den |-> Len(arr) * Len(arr)]

\* base.get_sequence_set(file): the stored sequence set; fails if missing
get_sequence_set(f, path) ==
    IF Exists(f, path) THEN [ok |-> TRUE, sset |-> f[path]]
    ELSE [ok |-> FALSE, sset |-> <<>>]

(***************************************************************************)
(* Initial model: emissions, get_initial_hmm, init.                        *)
(***************************************************************************)
N_STATES_PER_STROKE == 3
\* the vector length written as the literal 2 in get_emission_matrix
N_DIMENSIONS == 2

\* train_xml_files_dict[char_code][0] -> number of strokes; KeyError for an
\* unknown code, IndexError for an empty list
get_n_strokes(dict, char_code) ==
    IF char_code \notin DOMAIN dict \/ dict[char_code] = <<>>
    THEN [ok |-> FALSE, val |-> 0]
    ELSE [ok |-> TRUE, val |-> Len(dict[char_code][1])]

\* the loop over the sequence set: dx_arr / dy_arr, one pool per state
RECURSIVE emission_pools(_, _, _)
emission_pools(sset, n, pools) ==
    IF sset = <<>> THEN pools
    ELSE LET vectors == array_reshape(Head(sset), N_DIMENSIONS)
             distr_vectors == array_split(vectors, n)
         IN emission_pools(Tail(sset), n,
                [state_num \in 1..n |->
                    [dx |-> pools[state_num].dx
                            \o [k \in 1..Len(distr_vectors[state_num]) |->
                                   distr_vectors[state_num][k][1]],
                     dy |-> pools[state_num].dy
                            \o [k \in 1..Len(distr_vectors[state_num]) |->
                                   distr_vectors[state_num][k][2]]]])

EmptyPools(n) == [state_num \in 1..n |-> [dx |-> <<>>, dy |-> <<>>]]
Rational(r) == <<r.num, r.den>>
RATIONAL_ZERO == <<0, 1>>

\* A plausible slip: an empty pool gets zero mean and zero variance
\* instead of failing.
get_emission_matrix_zero_fill(n, sset) ==
    LET pools == emission_pools(sset, n, EmptyPools(n))
        stat(op(_), arr) == IF arr = <<>> THEN RATIONAL_ZERO
                            ELSE Rational(op(arr))
    IN [ok |-> TRUE,
        matrix |-> [i \in 1..n |->
            <<<<stat(array_mean, pools[i].dx),
                stat(array_mean, pools[i].dy)>>,
              <<stat(array_variance, pools[i].dx), RATIONAL_ZERO,
                RATIONAL_ZERO, stat(array_variance, pools[i].dy)>>>>]]

get_emission_matrix(n, sset) ==
    LET pools == emission_pools(sset, n, EmptyPools(n))
        dx_means == [i \in 1..n |-> array_mean(pools[i].dx)]
        dy_means == [i \in 1..n |-> array_mean(pools[i].dy)]
        dx_variances == [i \in 1..n |-> array_variance(pools[i].dx)]
        dy_variances == [i \in 1..n |-> array_variance(pools[i].dy)]
    IN IF \E i \in 1..n : ~dx_means[i].ok \/ ~dy_means[i].ok
                          \/ ~dx_variances[i].ok \/ ~dy_variances[i].ok
       THEN [ok |-> FALSE, matrix |-> <<>>]
       ELSE [ok |-> TRUE,
             matrix |-> [i \in 1..n |->
                 <<<<Rational(dx_means[i]), Rational(dy_means[i])>>,
                   <<Rational(dx_variances[i]), RATIONAL_ZERO,
                     RATIONAL_ZERO, Rational(dy_variances[i])>>>>]]

NoHmm == [pi |-> <<>>, A |-> <<>>, B |-> <<>>, baumWelch |-> <<>>]

get_initial_hmm(f, dict, sset_file) ==
    LET char_code == int(SliceDropLast(sset_file[2], SSET_SUFFIX_LEN))
        n_strokes == get_n_strokes(dict, char_code.val)
        n == n_strokes.val * N_STATES_PER_STROKE
        sset == get_sequence_set(f, sset_file)
        B == get_emission_matrix(n, sset.sset)
    IN IF ~char_code.ok \/ ~n_strokes.ok \/ ~sset.ok \/ n = 0 \/ ~B.ok
       THEN [ok |-> FALSE, hmm |-> NoHmm]
       ELSE [ok |-> TRUE,
             hmm |-> [pi |-> get_initial_state_probability(n),
                      A |-> get_state_transition_matrix(n),
                      B |-> B.matrix,
                      baumWelch |-> <<>>]]

\* one iteration of the for loop of init; an exception writes nothing
init_iteration(f, dict, sset_file) ==
    LET char_code == int(SliceDropLast(sset_file[2], SSET_SUFFIX_LEN))
        res == get_initial_hmm(f, dict, sset_file)
        output_file == <<INIT_HMM_ROOT, str(char_code.val) \o EXT_XML>>
    IN IF ~char_code.ok \/ ~res.ok
       THEN [ok |-> FALSE, fs |-> f, wrote |-> {}]
       ELSE [ok |-> TRUE, fs |-> WriteFile(f, output_file, res.hmm),
             wrote |-> {output_file}]

(***************************************************************************)
(* Training.                                                               *)
(***************************************************************************)
\* hmm.baumWelch(sset): the engine's refinement, kept as the record of the
\* sequence sets the model was refined on; no training data is a failure
baumWelch(hmm, sset) ==
    IF sset = <<>> THEN [ok |-> FALSE, hmm |-> hmm]
    ELSE [ok |-> TRUE,
          hmm |-> [hmm EXCEPT !.baumWelch = Append(hmm.baumWelch, sset)]]

\* one iteration of the for loop of train; an exception writes nothing
train_iteration(f, file) ==
    LET char_code == int(SlicePrefix(file[2], CODE_PREFIX_LEN))
        hmm == f[file]
        sset_file == <<TRAIN_FEATURES_ROOT, str(char_code.val) \o EXT_SSET>>
        sset == get_sequence_set(f, sset_file)
        refined == baumWelch(hmm, sset.sset)
        output_file == <<TRAIN_HMM_ROOT, str(char_code.val) \o EXT_XML>>
    IN IF ~char_code.ok \/ ~sset.ok \/ ~refined.ok
       THEN [ok |-> FALSE, fs |-> f, trace |-> {}]
       ELSE [ok |-> TRUE, fs |-> WriteFile(f, output_file, refined.hmm),
             trace |-> {[hmm_file |-> file, sset_file |-> sset_file,
                         output_file |-> output_file]}]

(***************************************************************************)
(* Ranking.                                                                *)
(***************************************************************************)
TOP1 == 1
TOP5 == 5
TOP10 == 10

\* Python's comparison of two lists of numbers (lexicographic); a float is
\* kept as a list of length one, which compares like the float.
RECURSIVE ListGt(_, _)
ListGt(a, b) ==
    IF a = <<>> THEN FALSE
    ELSE IF b = <<>> THEN TRUE
    ELSE IF Head(a) # Head(b) THEN Head(a) > Head(b)
    ELSE ListGt(Tail(a), Tail(b))

\* base.array_mean(x[1]) as the sort key
MeanGt(a, b) ==
    LET ma == array_mean(a)
        mb == array_mean(b)
    IN ma.num * mb.den > mb.num * ma.den

\* the order of two sort keys: x[1] itself, or base.array_mean(x[1])
KeyGt(by_mean, a, b) == IF by_mean THEN MeanGt(a, b) ELSE ListGt(a, b)

\* list.sort(key=..., reverse=True): descending and stable (elements with
\* equal keys keep their order): each element goes behind the elements
\* before it whose key is not smaller.
RECURSIVE SortInsert(_, _, _, _)
SortInsert(sorted, x, by_mean, descending) ==
    IF sorted = <<>> THEN <<x>>
    ELSE LET last == sorted[Len(sorted)]
             before == IF descending THEN KeyGt(by_mean, x[2], last[2])
                       ELSE KeyGt(by_mean, last[2], x[2])
         IN IF before
            THEN Append(SortInsert(SubSeq(sorted, 1, Len(sorted) - 1), x,
                                   by_mean, descending), last)
            ELSE Append(sorted, x)

RECURSIVE SortFrom(_, _, _, _)
SortFrom(sorted, rest, by_mean, descending) ==
    IF rest = <<>> THEN sorted
    ELSE SortFrom(SortInsert(sorted, Head(rest), by_mean, descending),
                  Tail(rest), by_mean, descending)

SortDescending(res, by_mean) == SortFrom(<<>>, res, by_mean, TRUE)

\* list.sort(key=...) without reverse=True: a plausible slip
SortAscending(res, by_mean) == SortFrom(<<>>, res, by_mean, FALSE)

\* seq.__class__.__name__ == ghmm.SequenceSet compares a string with a
\* class object, which is never equal, whatever the class of seq
ClassNameIsSequenceSet(is_sequence_set) == FALSE

\* hmm.viterbi(seq)[1] for every hmm, given as logp: one list of
\* log-likelihoods per hmm (one entry per sequence of the query)
eval_sequence_ascending(is_sequence_set, logp, hmm_list) ==
    SortAscending([h \in 1..Len(hmm_list) |->
                      <<hmm_list[h].char_code, logp[h]>>], FALSE)

eval_sequence(is_sequence_set, logp, hmm_list) ==
    LET res == [h \in 1..Len(hmm_list) |->
                   <<hmm_list[h].char_code, logp[h]>>]
    IN IF ClassNameIsSequenceSet(is_sequence_set)
       THEN SortDescending(res, TRUE)
       ELSE SortDescending(res, FALSE)

\* The scores the engine may return for nh models and nseq sequences: for
\* each sequence a descending ramp over the models, rotated by any amount,
\* with or without tied neighbours.
ViterbiOutcomes(nh, nseq) ==
    IF nh = 0 THEN {<<>>}
    ELSE {[h \in 1..nh |->
             [q \in 1..nseq |-> 0 - (((h - 1 + ks[q]) % nh) \div tie)]] :
          ks \in [1..nseq -> 0..(nh - 1)], tie \in {1, 2}}

RECURSIVE get_hmms_from_files(_, _)
get_hmms_from_files(f, files) ==
    IF files = <<>> THEN [ok |-> TRUE, hmms |-> <<>>]
    ELSE LET file == Head(files)
             char_code == int(SlicePrefix(file[2], CODE_PREFIX_LEN))
             rest == get_hmms_from_files(f, Tail(files))
         IN IF ~char_code.ok \/ ~rest.ok THEN [ok |-> FALSE, hmms |-> <<>>]
            ELSE [ok |-> TRUE,
                  hmms |-> <<[char_code |-> char_code.val,
                              hmm |-> f[file]]>> \o rest.hmms]

Codes(res) == [k \in 1..Len(res) |-> res[k][1]]
InSeq(x, s) == \E k \in 1..Len(s) : s[k] = x
\* 1-based place of the first x in s, 0 if absent
Place(x, s) == IF InSeq(x, s)
               THEN CHOOSE k \in 1..Len(s) :
                        s[k] = x /\ \A j \in 1..(k - 1) : s[j] # x
               ELSE 0

(***************************************************************************)
(* The corpus: the characters and their stroke samples.                    *)
(***************************************************************************)
Stroke(n, a) == [j \in 1..n |-> <<(a * j) % 7, (j * j) % 5>>]
W_ONE8 == <<Stroke(8, 3)>>
W_ONE10 == <<Stroke(10, 2)>>
W_TWO == <<Stroke(3, 1), Stroke(7, 4)>>
W_SHORT == <<Stroke(4, 5)>>

\* 97 has two digits and 123541 six; 12355 has no training sample and
\* 12356 too few points for its three states
CharCodes == {97, 12354, 12355, 12356, 12357, 123541}
TrainSamples(c) ==
    CASE c = 97 -> <<W_ONE8, W_TWO>>
      [] c = 12354 -> <<W_ONE8>>
      [] c = 12355 -> <<>>
      [] c = 12356 -> <<W_SHORT>>
      [] c = 12357 -> <<W_ONE10, W_ONE8>>
      [] OTHER -> <<W_ONE10>>
EvalCodes == {97, 12354, 12357}
EvalSamples(c) ==
    CASE c = 12354 -> <<W_ONE10, W_TWO>>
      [] c = 12357 -> <<W_ONE8>>
      [] OTHER -> <<W_SHORT>>
QueryWritings == {W_ONE8, W_TWO}
MaxChars == 3

(***************************************************************************)
(* The commands.  A command runs alone; a loop over files is one action    *)
(* per iteration, in the order its glob returned.                          *)
(***************************************************************************)
EmptyFs == <<>>

\* fextract: one .sset per character and partition, replacing any old one
fextract_sset(xml_list) ==
    [k \in 1..Len(xml_list) |->
        array_flatten(get_feature_vectors(xml_list[k]))]

\* the inner loop over xml_files_dict.items(); the characters write
\* different files, so the order of the items does not show
RECURSIVE fextract_loop(_, _, _, _)
fextract_loop(f, dirname, xml_files_dict, items) ==
    IF items = {} THEN f
    ELSE LET char_code == CHOOSE c \in items : TRUE
             output_file == <<FEATURES_ROOT \o <<dirname>>,
                              str(char_code) \o EXT_SSET>>
         IN fextract_loop(
                WriteFile(f, output_file,
                          fextract_sset(xml_files_dict[char_code])),
                dirname, xml_files_dict, items \ {char_code})

fextract(f, eval_dict, train_dict) ==
    fextract_loop(fextract_loop(f, "eval", eval_dict, DOMAIN eval_dict),
                  "train", train_dict, DOMAIN train_dict)

get_train_feature_files(f) == Glob(f, TRAIN_FEATURES_ROOT, EXT_SSET)
get_initial_hmm_files(f) == Glob(f, INIT_HMM_ROOT, EXT_XML)
get_trained_hmm_files(f) == Glob(f, TRAIN_HMM_ROOT, EXT_XML)
get_eval_feature_files(f) == Glob(f, EVAL_FEATURES_ROOT, EXT_SSET)

Idle == pc = "idle"

NoReport == [match1 |-> <<0, 0>>, match5 |-> <<0, 0>>, match10 |-> <<0, 0>>]

\* What is kept of a command is kept until the next command starts.
ForgetEvaluation ==
    /\ hmms' = <<>>
    /\ n_total' = 0 /\ n_match1' = 0 /\ n_match5' = 0 /\ n_match10' = 0
    /\ report' = NoReport
    /\ file_total' = 0 /\ file_match1' = 0 /\ file_match5' = 0
    /\ file_match10' = 0
    /\ seq_total' = 0 /\ seq_match1' = 0 /\ seq_match5' = 0
    /\ seq_match10' = 0

Corpus == <<train_xml_files_dict, eval_xml_files_dict>>

Fextract ==
    /\ Idle
    /\ fs' = fextract(fs, eval_xml_files_dict, train_xml_files_dict)
    /\ last_cmd' = "fextract"
    /\ last_ok' = TRUE
    /\ train_trace' = {} /\ init_wrote' = {} /\ fw_res' = <<>>
    /\ ForgetEvaluation
    /\ UNCHANGED <<Corpus, pc, todo>>
    /\ UNCHANGED <<featVars, matVars, rankVars>>

\* init, up to the loop: "No feature files found." ends it
InitStart ==
    /\ Idle
    /\ LET feature_files == get_train_feature_files(fs)
       IN \E order \in GlobOrders(feature_files) :
            /\ todo' = order
            /\ pc' = IF feature_files = {} THEN "idle" ELSE "init"
            /\ last_ok' = (feature_files # {})
    /\ last_cmd' = "init"
    /\ train_trace' = {} /\ init_wrote' = {} /\ fw_res' = <<>>
    /\ ForgetEvaluation
    /\ UNCHANGED <<Corpus, fs>>
    /\ UNCHANGED <<featVars, matVars, rankVars>>

InitStep ==
    /\ pc = "init"
    /\ LET run == init_iteration(fs, train_xml_files_dict, Head(todo))
       IN /\ fs' = run.fs
          /\ init_wrote' = init_wrote \cup run.wrote
          /\ last_ok' = run.ok
          /\ todo' = IF run.ok THEN Tail(todo) ELSE <<>>
          /\ pc' = IF run.ok /\ Tail(todo) # <<>> THEN "init" ELSE "idle"
    /\ UNCHANGED <<Corpus, last_cmd, train_trace, fw_res>>
    /\ UNCHANGED <<featVars, matVars, rankVars, evalVars>>

\* train, up to the loop: "No initial HMM files found." ends it
TrainStart ==
    /\ Idle
    /\ LET initial_hmm_files == get_initial_hmm_files(fs)
       IN \E order \in GlobOrders(initial_hmm_files) :
            /\ todo' = order
            /\ pc' = IF initial_hmm_files = {} THEN "idle" ELSE "train"
            /\ last_ok' = (initial_hmm_files # {})
    /\ last_cmd' = "train"
    /\ train_trace' = {} /\ init_wrote' = {} /\ fw_res' = <<>>
    /\ ForgetEvaluation
    /\ UNCHANGED <<Corpus, fs>>
    /\ UNCHANGED <<featVars, matVars, rankVars>>

TrainStep ==
    /\ pc = "train"
    /\ LET run == train_iteration(fs, Head(todo))
       IN /\ fs' = run.fs
          /\ train_trace' = train_trace \cup run.trace
          /\ last_ok' = run.ok
          /\ todo' = IF run.ok THEN Tail(todo) ELSE <<>>
          /\ pc' = IF run.ok /\ Tail(todo) # <<>> THEN "train" ELSE "idle"
    /\ UNCHANGED <<Corpus, last_cmd, init_wrote, fw_res>>
    /\ UNCHANGED <<featVars, matVars, rankVars, evalVars>>

\* find_writing: the writing pad's query, one EmissionSequence
FindWriting ==
    /\ Idle
    /\ \E w \in QueryWritings :
       \E order \in GlobOrders(get_trained_hmm_files(fs)) :
         LET seq == array_flatten(get_feature_vectors(w))
             loaded == get_hmms_from_files(fs, order)
         IN \E logp \in ViterbiOutcomes(Len(loaded.hmms), Len(<<seq>>)) :
              /\ last_ok' = loaded.ok
              /\ fw_res' = IF loaded.ok
                           THEN eval_sequence(FALSE, logp, loaded.hmms)
                           ELSE <<>>
    /\ last_cmd' = "find_writing"
    /\ train_trace' = {} /\ init_wrote' = {}
    /\ ForgetEvaluation
    /\ UNCHANGED <<Corpus, fs, pc, todo>>
    /\ UNCHANGED <<featVars, matVars, rankVars>>

(***************************************************************************)
(* evaluation.                                                             *)
(***************************************************************************)
\* evaluation, up to the loop: "No trained HMM files found." ends it
EvaluationStart ==
    /\ Idle
    /\ LET trained_hmm_files == get_trained_hmm_files(fs)
       IN \E order \in GlobOrders(trained_hmm_files) :
          \E eval_order \in GlobOrders(get_eval_feature_files(fs)) :
            LET loaded == get_hmms_from_files(fs, order)
            IN IF trained_hmm_files = {} \/ ~loaded.ok
               THEN /\ last_ok' = FALSE
                    /\ hmms' = <<>>
                    /\ UNCHANGED <<pc, todo>>
               ELSE /\ last_ok' = TRUE
                    /\ pc' = "evaluation"
                    /\ hmms' = loaded.hmms
                    /\ todo' = eval_order
    /\ last_cmd' = "evaluation"
    /\ n_total' = 0 /\ n_match1' = 0 /\ n_match5' = 0 /\ n_match10' = 0
    /\ file_total' = 0 /\ file_match1' = 0 /\ file_match5' = 0
    /\ file_match10' = 0
    /\ seq_total' = 0 /\ seq_match1' = 0 /\ seq_match5' = 0
    /\ seq_match10' = 0
    /\ report' = NoReport
    /\ train_trace' = {} /\ init_wrote' = {} /\ fw_res' = <<>>
    /\ UNCHANGED <<Corpus, fs>>
    /\ UNCHANGED <<featVars, matVars, rankVars>>

\* A plausible slip: match1 tested with "in res", like match10.
match_counts_in_res(char_code, res, c) ==
    [n_match10 |-> c.n_match10
                   + (IF InSeq(char_code, res) THEN 1 ELSE 0),
     n_match5 |-> c.n_match5
                  + (IF InSeq(char_code, SlicePrefix(res, TOP5))
                     THEN 1 ELSE 0),
     n_match1 |-> c.n_match1
                  + (IF InSeq(char_code, res) THEN 1 ELSE 0),
     n_total |-> c.n_total + 1]

\* A plausible slip: match5 tested with "== res[0]", like match1.
match_counts_first_only(char_code, res, c) ==
    [n_match10 |-> c.n_match10
                   + (IF InSeq(char_code, res) THEN 1 ELSE 0),
     n_match5 |-> c.n_match5 + (IF char_code = res[1] THEN 1 ELSE 0),
     n_match1 |-> c.n_match1 + (IF char_code = res[1] THEN 1 ELSE 0),
     n_total |-> c.n_total + 1]

\* The counters after one iteration; res is the ranking cut to ten codes.
match_counts(char_code, res, c) ==
    [n_match10 |-> c.n_match10
                   + (IF InSeq(char_code, res) THEN 1 ELSE 0),
     n_match5 |-> c.n_match5
                  + (IF InSeq(char_code, SlicePrefix(res, TOP5))
                     THEN 1 ELSE 0),
     n_match1 |-> c.n_match1 + (IF char_code = res[1] THEN 1 ELSE 0),
     n_total |-> c.n_total + 1]

\* History only: for q = 1..nseq, the place of char_code in the ranking of
\* sequence q alone against all models (0 if it is not ranked), and the
\* number of sequences that have it among the first k.
RECURSIVE SequencePlaces(_, _, _)
SequencePlaces(char_code, logp, nseq) ==
    IF nseq = 0 THEN <<>>
    ELSE Append(SequencePlaces(char_code, logp, nseq - 1),
                Place(char_code,
                      Codes(eval_sequence(FALSE,
                               [h \in 1..Len(hmms) |-> <<logp[h][nseq]>>],
                               hmms))))

\* 1 if a place is among the first k, else 0
Within(place, k) == IF place >= 1 /\ place <= k THEN 1 ELSE 0

SequencesMatching(places, k) ==
    Cardinality({q \in 1..Len(places) : places[q] >= 1 /\ places[q] <= k})

\* one iteration of the loop over the evaluation files
EvaluationStep ==
    /\ pc = "evaluation"
    /\ todo # <<>>
    /\ LET file == Head(todo)
           char_code == int(SlicePrefix(file[2], CODE_PREFIX_LEN))
           sset == get_sequence_set(fs, file)
       IN IF ~char_code.ok \/ ~sset.ok
          THEN /\ pc' = "idle"
               /\ last_ok' = FALSE
               /\ todo' = <<>>
               /\ UNCHANGED <<n_total, n_match1, n_match5, n_match10,
                              file_total, file_match1, file_match5,
                              file_match10, seq_total, seq_match1,
                              seq_match5, seq_match10>>
          ELSE \E logp \in ViterbiOutcomes(Len(hmms), Len(sset.sset)) :
                 LET ranked == Codes(eval_sequence(TRUE, logp, hmms))
                     res == SlicePrefix(ranked, TOP10)
                     c == match_counts(char_code.val, res,
                             [n_match10 |-> n_match10,
                              n_match5 |-> n_match5,
                              n_match1 |-> n_match1,
                              n_total |-> n_total])
                     nseq == Len(sset.sset)
                     place == Place(char_code.val, ranked)
                     places == SequencePlaces(char_code.val, logp, nseq)
                 IN /\ n_match10' = c.n_match10
                    /\ n_match5' = c.n_match5
                    /\ n_match1' = c.n_match1
                    /\ n_total' = c.n_total
                    /\ todo' = Tail(todo)
                    /\ file_total' = file_total + 1
                    /\ file_match1' = file_match1 + Within(place, TOP1)
                    /\ file_match5' = file_match5 + Within(place, TOP5)
                    /\ file_match10' = file_match10 + Within(place, TOP10)
                    /\ seq_total' = seq_total + nseq
                    /\ seq_match1' = seq_match1
                                     + SequencesMatching(places, TOP1)
                    /\ seq_match5' = seq_match5
                                     + SequencesMatching(places, TOP5)
                    /\ seq_match10' = seq_match10
                                      + SequencesMatching(places, TOP10)
                    /\ UNCHANGED <<pc, last_ok>>
    /\ UNCHANGED <<hmms, report, last_cmd>>
    /\ UNCHANGED <<Corpus, fs, train_trace, init_wrote, fw_res>>
    /\ UNCHANGED <<featVars, matVars, rankVars>>

\* after the loop: the three percentages, float(n) / float(n_total) * 100,
\* kept as <<100 * n, n_total>>; ZeroDivisionError when n_total is 0
EvaluationEnd ==
    /\ pc = "evaluation"
    /\ todo = <<>>
    /\ pc' = "idle"
    /\ IF n_total = 0
       THEN /\ last_ok' = FALSE
            /\ UNCHANGED report
       ELSE /\ last_ok' = TRUE
            /\ report' = [match1 |-> <<100 * n_match1, n_total>>,
                          match5 |-> <<100 * n_match5, n_total>>,
                          match10 |-> <<100 * n_match10, n_total>>]
    /\ UNCHANGED <<hmms, todo, n_total, n_match1, n_match5, n_match10,
                   file_total, file_match1, file_match5, file_match10,
                   seq_total, seq_match1, seq_match5, seq_match10,
                   last_cmd>>
    /\ UNCHANGED <<Corpus, fs, train_trace, init_wrote, fw_res>>
    /\ UNCHANGED <<featVars, matVars, rankVars>>

(***************************************************************************)
(* Direct calls of the pure functions.                                     *)
(***************************************************************************)
ExtractFeatures ==
    /\ ~gfv_done
    /\ gfv_arr' = get_feature_vectors(tomoe_writing)
    /\ gfv_done' = TRUE
    /\ UNCHANGED <<SAMPLING, tomoe_writing>>
    /\ UNCHANGED <<matVars, rankVars, pipeVars, evalVars>>

BuildTransitionMatrix ==
    /\ ~A_done
    /\ A_ret' = get_state_transition_matrix(n_states)
    /\ A_done' = TRUE
    /\ UNCHANGED <<n_states, pi_done, pi_ret>>
    /\ UNCHANGED <<featVars, rankVars, pipeVars, evalVars>>

BuildInitialDistribution ==
    /\ ~pi_done
    /\ pi_ret' = get_initial_state_probability(n_states)
    /\ pi_done' = TRUE
    /\ UNCHANGED <<n_states, A_done, A_ret>>
    /\ UNCHANGED <<featVars, rankVars, pipeVars, evalVars>>

\* eval_sequence called with a SequenceSet of rk_nseq sequences
EvalBatch ==
    /\ ~rk_done
    /\ \E logp \in ViterbiOutcomes(Len(rk_hmms), rk_nseq) :
         rk_res' = eval_sequence(TRUE, logp, rk_hmms)
    /\ rk_done' = TRUE
    /\ UNCHANGED <<rk_hmms, rk_nseq>>
    /\ UNCHANGED <<featVars, matVars, pipeVars, evalVars>>

(***************************************************************************)
(* Initial states and specifications.                                      *)
(***************************************************************************)
MaxSeqs == 2
RankCodes == {12354, 12357, 20013}
ModelCode(i) == 12353 + i

\* __init__: SAMPLING = 0.5
SAMPLING_NUM == 1
SAMPLING_DEN == 2

FeatIdle ==
    /\ SAMPLING = [num |-> SAMPLING_NUM, den |-> SAMPLING_DEN]
    /\ tomoe_writing = <<>>
    /\ gfv_done = FALSE
    /\ gfv_arr = <<>>
MatIdle ==
    /\ n_states = N_STATES_PER_STROKE
    /\ A_done = FALSE /\ A_ret = <<>>
    /\ pi_done = FALSE /\ pi_ret = <<>>
RankIdle ==
    /\ rk_hmms = <<>> /\ rk_nseq = 1 /\ rk_done = FALSE /\ rk_res = <<>>
EvalIdle ==
    /\ hmms = <<>>
    /\ n_total = 0 /\ n_match1 = 0 /\ n_match5 = 0 /\ n_match10 = 0
    /\ report = NoReport
    /\ file_total = 0 /\ file_match1 = 0 /\ file_match5 = 0
    /\ file_match10 = 0
    /\ seq_total = 0 /\ seq_match1 = 0 /\ seq_match5 = 0 /\ seq_match10 = 0
\* an empty models/basic directory, nothing run yet
FreshStart ==
    /\ fs = EmptyFs /\ last_cmd = "none" /\ last_ok = TRUE
    /\ pc = "idle" /\ todo = <<>>
    /\ train_trace = {} /\ init_wrote = {} /\ fw_res = <<>>
PipeIdle ==
    /\ train_xml_files_dict = <<>> /\ eval_xml_files_dict = <<>>
    /\ FreshStart

\* the pipeline on a corpus of up to MaxChars characters of CharCodes
Init ==
    /\ FeatIdle /\ MatIdle /\ RankIdle /\ EvalIdle
    /\ \E K \in SUBSET CharCodes :
         /\ Cardinality(K) <= MaxChars
         /\ train_xml_files_dict = [c \in K |-> TrainSamples(c)]
         /\ eval_xml_files_dict = [c \in K \cap EvalCodes |->
                                      EvalSamples(c)]
    /\ FreshStart

Next ==
    \/ Fextract
    \/ InitStart
    \/ InitStep
    \/ TrainStart
    \/ TrainStep
    \/ FindWriting
    \/ EvaluationStart
    \/ EvaluationStep
    \/ EvaluationEnd

Spec == Init /\ [][Next]_vars

\* corpus sizes on either side of the cuts res[:5] and res[:10]
CorpusSizes == {1, 2, TOP5 + 1, MaxModels}

\* the pipeline on a corpus of well-formed characters with five-digit
\* codes, of which the first and the last may have evaluation samples
InitEval ==
    /\ FeatIdle /\ MatIdle /\ RankIdle /\ EvalIdle
    /\ \E n \in CorpusSizes :
         /\ train_xml_files_dict = [c \in {ModelCode(i) : i \in 1..n} |->
                                       <<W_ONE8>>]
         /\ \E K \in SUBSET {ModelCode(1), ModelCode(n)} :
              eval_xml_files_dict =
                  [c \in K |-> IF c = ModelCode(1) THEN <<W_ONE10, W_TWO>>
                               ELSE <<W_ONE8>>]
    /\ FreshStart

\* the batch commands of the console script
NextEval ==
    \/ Fextract
    \/ InitStart
    \/ InitStep
    \/ TrainStart
    \/ TrainStep
    \/ EvaluationStart
    \/ EvaluationStep
    \/ EvaluationEnd

SpecEval == InitEval /\ [][NextEval]_vars

\* get_feature_vectors on any sampling rate and on writings of up to
\* MaxStrokes strokes of up to MaxPts points each
InitFeat ==
    /\ MatIdle /\ RankIdle /\ EvalIdle /\ PipeIdle
    /\ SAMPLING \in {[num |-> a, den |-> b] : a \in 1..MaxDen, b \in 1..MaxDen}
    /\ SAMPLING.num <= SAMPLING.den
    /\ tomoe_writing \in {[k \in 1..Len(lens) |-> Stroke(lens[k], k)] :
                            lens \in SeqsUpTo(0..MaxPts, MaxStrokes)}
    /\ gfv_done = FALSE
    /\ gfv_arr = <<>>

NextFeat == ExtractFeatures

SpecFeat == InitFeat /\ [][NextFeat]_vars

\* the initial-matrix builders on any state count
InitMatrix ==
    /\ FeatIdle /\ RankIdle /\ EvalIdle /\ PipeIdle
    /\ n_states \in 1..MaxNStates
    /\ A_done = FALSE /\ A_ret = <<>>
    /\ pi_done = FALSE /\ pi_ret = <<>>

NextMatrix ==
    \/ BuildTransitionMatrix
    \/ BuildInitialDistribution

SpecMatrix == InitMatrix /\ [][NextMatrix]_vars

\* a trained model, as train leaves it for a character with one sample
RankModel ==
    LET dict == [c \in {ModelCode(1)} |-> <<W_ONE8>>]
        sset_file == <<TRAIN_FEATURES_ROOT, str(ModelCode(1)) \o EXT_SSET>>
        f == WriteFile(EmptyFs, sset_file, fextract_sset(dict[ModelCode(1)]))
    IN baumWelch(get_initial_hmm(f, dict, sset_file).hmm, f[sset_file]).hmm

\* eval_sequence on a batch, for any list of models of RankCodes
InitRank ==
    /\ FeatIdle /\ MatIdle /\ EvalIdle /\ PipeIdle
    /\ \E K \in SUBSET RankCodes :
       \E order \in GlobOrders({<<TRAIN_HMM_ROOT, str(c) \o EXT_XML>> :
                                  c \in K}) :
         rk_hmms = [k \in 1..Len(order) |->
                      [char_code |-> int(SlicePrefix(order[k][2],
                                                      CODE_PREFIX_LEN)).val,
                       hmm |-> RankModel]]
    /\ rk_nseq \in 1..MaxSeqs
    /\ rk_done = FALSE
    /\ rk_res = <<>>

NextRank == EvalBatch

SpecRank == InitRank /\ [][NextRank]_vars

(***************************************************************************)
(* Properties.                                                             *)
(***************************************************************************)
PointCount == Len(Flatten(tomoe_writing))

\* C1 (as the code has it): for every sampling rate r in (0,1] and every
\* writing with P points in all its strokes, get_feature_vectors returns
\* max(0, ceil(P / k) - 1) vectors, where k = int(1 / r), truncated.
C1_FeatureCount ==
    gfv_done =>
        Len(gfv_arr) = Max(0, CeilDiv(PointCount, SamplingStep(SAMPLING)) - 1)

\* C1 as stated: the length is max(0, floor(P / round(1 / r)) - 1).
C1_AsStated ==
    gfv_done =>
        Len(gfv_arr) = Max(0, (PointCount \div RoundInverse(SAMPLING)) - 1)

C1_Witness ==
    /\ gfv_done
    /\ Len(tomoe_writing) = 2
    /\ PointCount = 5
    /\ SamplingStep(SAMPLING) = 2
    /\ Len(gfv_arr) = 2

\* C2 as stated: in the result of eval_sequence on a batch, a candidate
\* with a strictly larger mean of its per-sequence log-likelihoods is never
\* behind one with a smaller mean.
C2_AsStated ==
    rk_done =>
        \A i \in 1..Len(rk_res) : \A j \in 1..Len(rk_res) :
            i < j => ~MeanGt(rk_res[j][2], rk_res[i][2])

\* C3 (as the code has it): evaluation ranks each evaluation file once,
\* its whole sequence set as one batch, and each reported match@K is
\* 100 * (files whose character is among the first K codes of the file's
\* ranking) / (files ranked).
C3_PerFile ==
    /\ n_total = file_total
    /\ n_match1 = file_match1
    /\ n_match5 = file_match5
    /\ n_match10 = file_match10
    /\ report # NoReport =>
         /\ report.match1 = <<100 * file_match1, file_total>>
         /\ report.match5 = <<100 * file_match5, file_total>>
         /\ report.match10 = <<100 * file_match10, file_total>>

\* C3 as stated: each reported match@K is 100 * (evaluation sequences whose
\* character is among the first K codes of the sequence's own ranking) /
\* (evaluation sequences).
C3_AsStated ==
    report # NoReport =>
        /\ report.match1[1] * seq_total = 100 * seq_match1 * report.match1[2]
        /\ report.match5[1] * seq_total = 100 * seq_match5 * report.match5[2]
        /\ report.match10[1] * seq_total
               = 100 * seq_match10 * report.match10[2]

C3_Witness ==
    /\ report # NoReport
    /\ file_total = 2
    /\ seq_total > file_total
    /\ file_match1 = 1
    /\ file_match5 = 1
    /\ file_match10 = 2

Stem(path) == SubSeq(path[2], 1, Len(path[2]) - Len(EXT_XML))
SsetStem(path) == SubSeq(path[2], 1, Len(path[2]) - Len(EXT_SSET))
TrainSsetFile(c) == <<TRAIN_FEATURES_ROOT, str(c) \o EXT_SSET>>
InitHmmFile(c) == <<INIT_HMM_ROOT, str(c) \o EXT_XML>>
TrainedHmmFile(c) == <<TRAIN_HMM_ROOT, str(c) \o EXT_XML>>

\* C4 as stated: every iteration of train reads the initial model and the
\* training collection of one stem and writes the trained model under that
\* same stem, and a successful run leaves a trained model for every stem
\* that has an initial model.
C4_AsStated ==
    /\ \A t \in train_trace :
         /\ SsetStem(t.sset_file) = Stem(t.hmm_file)
         /\ Stem(t.output_file) = Stem(t.hmm_file)
    /\ (pc = "idle" /\ last_cmd = "train" /\ last_ok) =>
         \A file \in get_initial_hmm_files(fs) :
             Exists(fs, <<TRAIN_HMM_ROOT, file[2]>>)

TrainedCodes ==
    {int(SlicePrefix(file[2], CODE_PREFIX_LEN)).val :
        file \in get_trained_hmm_files(fs)}

\* C5: the result of find_writing's eval_sequence on the trained models is
\* ordered by non-increasing score, holds only codes of candidate models,
\* and holds no code twice.
C5_RankingOrdered ==
    (last_cmd = "find_writing" /\ last_ok) =>
        /\ \A i \in 1..Len(fw_res) : \A j \in 1..Len(fw_res) :
             i < j => fw_res[i][2][1] >= fw_res[j][2][1]
        /\ \A i \in 1..Len(fw_res) : fw_res[i][1] \in TrainedCodes
        /\ \A i \in 1..Len(fw_res) : \A j \in 1..Len(fw_res) :
             i # j => fw_res[i][1] # fw_res[j][1]

C5_Witness ==
    /\ last_cmd = "find_writing"
    /\ last_ok
    /\ Len(fw_res) = 2
    /\ fw_res[1][2][1] > fw_res[2][2][1]

\* the states of character c, and whether one of them gets no vector
StateCount(c) == Len(train_xml_files_dict[c][1]) * N_STATES_PER_STROKE
HasEmptyPool(c) ==
    LET pools == emission_pools(fs[TrainSsetFile(c)], StateCount(c),
                                EmptyPools(StateCount(c)))
    IN \E i \in 1..StateCount(c) : pools[i].dx = <<>> \/ pools[i].dy = <<>>
Degenerate(c) ==
    /\ Exists(fs, TrainSsetFile(c))
    /\ \/ fs[TrainSsetFile(c)] = <<>>
       \/ HasEmptyPool(c)

\* C6: a character whose training collection has no sequence, or one of
\* whose states gets an empty pool, never has an initial model file, and an
\* init run over such a character ends with an error.
C6_NoDegenerateModel ==
    \A c \in DOMAIN train_xml_files_dict :
        Degenerate(c) =>
            /\ ~Exists(fs, InitHmmFile(c))
            /\ (pc = "idle" /\ last_cmd = "init") => ~last_ok

C6_Witness ==
    /\ pc = "idle" /\ last_cmd = "init" /\ ~last_ok
    /\ init_wrote # {}
    /\ \E c \in DOMAIN train_xml_files_dict :
         Degenerate(c) /\ fs[TrainSsetFile(c)] = <<>>
    /\ \E c \in DOMAIN train_xml_files_dict :
         Degenerate(c) /\ fs[TrainSsetFile(c)] # <<>>

KeptByTrain(dir) ==
    /\ FilesIn(fs', dir) = FilesIn(fs, dir)
    /\ \A p \in FilesIn(fs, dir) : fs'[p] = fs[p]

\* C7: a train run creates, deletes and changes no initial model file (and
\* no feature file): what it writes is in the trained store only.
C7_TrainKeepsInitial ==
    [][(TrainStart \/ TrainStep) =>
          /\ KeptByTrain(INIT_HMM_ROOT)
          /\ KeptByTrain(TRAIN_FEATURES_ROOT)
          /\ KeptByTrain(EVAL_FEATURES_ROOT)]_vars

C7_Witness ==
    /\ last_cmd = "train"
    /\ Cardinality(train_trace) = 2
    /\ \A t \in train_trace : Exists(fs, t.output_file)

RowSum(row, n) == SumSeq([k \in 1..n |-> row[k - 1]])

\* C8: for every n_states >= 1 the transition matrix is n_states x
\* n_states, every row sums to 1, row i is 0.5 in columns i and i+1 and 0
\* elsewhere for i < n_states-1, and the last row is 1 on the last state.
C8_TransitionMatrix ==
    A_done =>
        /\ DOMAIN A_ret = 0..(n_states - 1)
        /\ \A i \in 0..(n_states - 1) :
             /\ DOMAIN A_ret[i] = 0..(n_states - 1)
             /\ RowSum(A_ret[i], n_states) = P_ONE
             /\ \A j \in 0..(n_states - 1) :
                  A_ret[i][j] # P_ZERO => (j = i \/ j = i + 1)
             /\ i < n_states - 1 =>
                  A_ret[i][i] = P_HALF /\ A_ret[i][i + 1] = P_HALF
        /\ A_ret[n_states - 1][n_states - 1] = P_ONE

C8_Witness ==
    /\ A_done
    /\ n_states = MaxNStates
    /\ A_ret[0][1] = P_HALF

\* C9: after every step of an evaluation run n_match1 <= n_match5 <=
\* n_match10 <= n_total, and the reported match@1 <= match@5 <= match@10.
C9_MatchMonotone ==
    /\ n_match1 <= n_match5
    /\ n_match5 <= n_match10
    /\ n_match10 <= n_total
    /\ report.match1[1] <= report.match5[1]
    /\ report.match5[1] <= report.match10[1]
    /\ report.match1[2] = report.match5[2]
    /\ report.match5[2] = report.match10[2]

C9_Witness ==
    /\ report # NoReport
    /\ Len(hmms) > TOP10
    /\ n_match1 = 0
    /\ n_match5 = 1
    /\ n_match10 = 1
    /\ n_total = 2

\* C10 as stated: when a train run has ended, with or without a failure,
\* every initial model whose own iteration succeeds (its training
\* collection is there and valid) has the trained model file that iteration
\* writes.
C10_AsStated ==
    (pc = "idle" /\ last_cmd = "train") =>
        \A file \in get_initial_hmm_files(fs) :
            LET run == train_iteration(fs, file)
            IN run.ok => \A t \in run.trace : Exists(fs, t.output_file)

====
